---- MODULE Spec2Model ----
(***************************************************************************)
(* Model of src/tasks.py: the robot ordering task.  The task cleans the    *)
(* output directories, opens the order page, downloads orders.csv and then *)
(* processes the rows one by one: submit the form (with a bounded retry    *)
(* loop), save a screenshot, write a receipt, order another robot.         *)
(*                                                                         *)
(* The browser page, the HTTP download and the file system are the         *)
(* environment.  What the page shows (whether a selector appears before    *)
(* its timeout, whether the error alert is visible, which order id the     *)
(* receipt badge carries) is chosen nondeterministically.  Every call the  *)
(* program makes on the page, the logger or the file system is appended to *)
(* the history variable events.                                            *)
(***************************************************************************)
EXTENDS Integers, Sequences, FiniteSets, TLC

VARIABLES
    pc,               \* position of the single thread of control
    ret,              \* caller that fill_and_submit_order_form returns to
    error,            \* the exception that ended the run, NoError while running
    screenshots_dir,  \* output/screenshots: [exists, files]
    receipts_dir,     \* output/receipts: [exists, files]
    orders_csv,       \* content of output/data/orders.csv: a sequence of rows
    rows,             \* fill_form_with_csv_data: the table read from the csv
    i,                \* fill_form_with_csv_data: number of rows taken by the for loop
    robot_order,      \* the RobotOrder being processed
    attempts,         \* fill_and_submit_order_form: parameter attempts
    attempt,          \* fill_and_submit_order_form: loop variable attempt
    screenshot,       \* fill_form_with_csv_data: path returned by save_robot_screenshot
    events,           \* history: calls made on the page, the logger and the file system
    pdf_pc,           \* write_receipt_to_pdf: position in the rendering of one receipt
    order_html,       \* write_receipt_to_pdf: parameter order_html, a sequence of characters
    clean_order_html, \* write_receipt_to_pdf: local clean_order_html
    img,              \* write_receipt_to_pdf: img.getSize(), the size of the screenshot
    img_width,        \* write_receipt_to_pdf: local img_width
    img_height,       \* write_receipt_to_pdf: local img_height
    scale             \* write_receipt_to_pdf: local scale

\* The variables of the rendering of a receipt.
pdf_vars == <<pdf_pc, order_html, clean_order_html, img, img_width, img_height, scale>>

\* The variables of the task.
task_vars == <<pc, ret, error, screenshots_dir, receipts_dir, orders_csv, rows, i,
               robot_order, attempts, attempt, screenshot, events>>

vars == <<pc, ret, error, screenshots_dir, receipts_dir, orders_csv, rows, i,
          robot_order, attempts, attempt, screenshot, events,
          pdf_pc, order_html, clean_order_html, img, img_width, img_height, scale>>

----------------------------------------------------------------------------
(* Bounds of the model *)

MaxRows == 2

MaxAttempts == 4

MaxPieces == 3

ImgStep == 100

MaxImgSteps == 10

OrderNumbers == {"1", "2"}

PageOrderIds == {"1", "RSB-ROBO-ORDER-A"}

----------------------------------------------------------------------------
(* Constants of the program *)

DefaultAttempts == 3

SCREENSHOTS_DIR == "output/screenshots"

RECEIPTS_DIR == "output/receipts"

OK_BUTTON == "button:text('OK')"

HEAD_FIELD == "#head"

PREVIEW_IMAGE == "#robot-preview-image"

ORDER_ANOTHER_BUTTON == "button:text('ORDER ANOTHER ROBOT')"

RECEIPT_REGION == "#receipt"

----------------------------------------------------------------------------
(* Data *)

None == "None"

\* One row of the table: a mapping from column name to value.
Row(order_number) ==
    ("Order number" :> order_number) @@ ("Head" :> "1") @@ ("Body" :> "2")
        @@ ("Legs" :> "3") @@ ("Address" :> "Address 123")

TableRows == {Row(n) : n \in OrderNumbers}

Tables == UNION {[1..n -> TableRows] : n \in 0..MaxRows}

\* row.get(key): the value of the column, None when the column is missing.
Get(row, key) == IF key \in DOMAIN row THEN row[key] ELSE None

RobotOrder(row) ==
    [order_number |-> Get(row, "Order number"),
     head         |-> Get(row, "Head"),
     body         |-> Get(row, "Body"),
     legs         |-> Get(row, "Legs"),
     address      |-> Get(row, "Address")]

NoOrder == [order_number |-> "", head |-> "", body |-> "", legs |-> "", address |-> ""]

RobotOrders == {RobotOrder(r) : r \in TableRows}

ScreenshotPath(order) == SCREENSHOTS_DIR \o "/" \o "robot_" \o order.order_number \o ".png"

\* Mutant of ReceiptPath: the order id is left out of the file name.
ReceiptPath_Fixed(order_id) == RECEIPTS_DIR \o "/" \o "receipt.pdf"

ReceiptPath(order_id) == RECEIPTS_DIR \o "/" \o "receipt_" \o order_id \o ".pdf"

NoError == [type |-> "", message |-> ""]

TimeoutError(selector) == [type |-> "TimeoutError", message |-> selector]

AttributeError(selector) == [type |-> "AttributeError", message |-> selector]

ExhaustedError(order, n) ==
    [type    |-> "RuntimeError",
     message |-> "Failed to submit order for " \o order.order_number
                     \o " after " \o ToString(n) \o " attempts"]

\* An entry of the history: the call, the row and attempt it was made for, and
\* its argument (a selector, an order number or a path).
Event(op, row, att, arg) == [op |-> op, row |-> row, att |-> att, arg |-> arg]

Log(evs) == events' = events \o evs

\* A directory: whether it exists, and its files.  A file records its path
\* and the row of this run that wrote it (0: left by an earlier run).
AbsentDir == [exists |-> FALSE, files |-> {}]

File(path, row) == [path |-> path, row |-> row]

StaleScreenshots == {File(ScreenshotPath(o), 0) : o \in RobotOrders}

StaleReceipts == {File(ReceiptPath(id), 0) : id \in PageOrderIds}

\* path.mkdir(parents=True, exist_ok=True)
Mkdir(dir) == [dir EXCEPT !.exists = TRUE]

\* Writing a file creates it or replaces the file at the same path.
WriteFile(dir, path, row) ==
    [dir EXCEPT !.files = {f \in dir.files : f.path # path} \cup {File(path, row)}]

\* Mutant of RemoveDir: the directory is left as it is.
RemoveDir_Keeps(dir) == dir

\* if dir_path.is_dir(): shutil.rmtree(dir_path)
RemoveDir(dir) == IF dir.exists THEN AbsentDir ELSE dir

\* The rmtree call, made only when the directory exists.
RmtreeCalls(dir, path) == IF dir.exists THEN <<Event("rmtree", 0, 0, path)>> ELSE <<>>


----------------------------------------------------------------------------
(* Initial states *)

\* The task starts with whatever an earlier run left in the output directories.
InitDirs ==
    /\ screenshots_dir \in
          {AbsentDir} \cup {[exists |-> TRUE, files |-> fs] : fs \in {{}, StaleScreenshots}}
    /\ receipts_dir \in
          {AbsentDir} \cup {[exists |-> TRUE, files |-> fs] : fs \in {{}, StaleReceipts}}

\* A fraction n/d with d > 0.
Rat(n, d) == [n |-> n, d |-> d]

\* No receipt is being rendered.
PdfIdle ==
    /\ pdf_pc = "idle"
    /\ order_html = <<>>
    /\ clean_order_html = <<>>
    /\ img = <<1, 1>>
    /\ img_width = Rat(1, 1)
    /\ img_height = Rat(1, 1)
    /\ scale = Rat(1, 1)

Init ==
    /\ pc = "configure_browser"
    /\ ret = "fill_form_with_csv_data"
    /\ error = NoError
    /\ InitDirs
    /\ orders_csv = <<>>
    /\ rows = <<>>
    /\ i = 0
    /\ robot_order = NoOrder
    /\ attempts = DefaultAttempts
    /\ attempt = 0
    /\ screenshot = ""
    /\ events = <<>>
    /\ PdfIdle

\* A direct call fill_and_submit_order_form(robot_order, attempts).
InitCall ==
    /\ pc = "fill_and_submit_order_form"
    /\ ret = "caller"
    /\ error = NoError
    /\ screenshots_dir = AbsentDir
    /\ receipts_dir = AbsentDir
    /\ orders_csv = <<>>
    /\ rows = <<>>
    /\ i = 0
    /\ robot_order \in RobotOrders
    /\ attempts \in (0 - 1)..MaxAttempts
    /\ attempt = 0
    /\ screenshot = ""
    /\ events = <<>>
    /\ PdfIdle

----------------------------------------------------------------------------
(* The task *)

\* Mutant of Raise: the loop over the rows catches the exception and goes on
\* with the next row.
Raise_SkipAndContinue(e) ==
    /\ error' = e
    /\ pc' = "for_row"

\* An exception propagates to the top: nothing catches it.
Raise(e) ==
    /\ error' = e
    /\ pc' = "raised"

\* page.wait_for_selector(selector, timeout=10000) when the element never appears.
WaitTimesOut(selector, att) ==
    /\ Log(<<Event("wait_timeout", i, att, selector)>>)
    /\ Raise(TimeoutError(selector))

configure_browser ==
    /\ pc = "configure_browser"
    /\ pc' = "clean_screenshots_dir"
    /\ UNCHANGED <<ret, error, screenshots_dir, receipts_dir, orders_csv, rows, i,
                   robot_order, attempts, attempt, screenshot, events>>
    /\ UNCHANGED pdf_vars

clean_screenshots_dir ==
    /\ pc = "clean_screenshots_dir"
    /\ screenshots_dir' = RemoveDir(screenshots_dir)
    /\ Log(RmtreeCalls(screenshots_dir, SCREENSHOTS_DIR))
    /\ pc' = "clean_receipts_dir"
    /\ UNCHANGED <<ret, error, receipts_dir, orders_csv, rows, i,
                   robot_order, attempts, attempt, screenshot>>
    /\ UNCHANGED pdf_vars

clean_receipts_dir ==
    /\ pc = "clean_receipts_dir"
    /\ receipts_dir' = RemoveDir(receipts_dir)
    /\ Log(RmtreeCalls(receipts_dir, RECEIPTS_DIR))
    /\ pc' = "open_robot_order_website"
    /\ UNCHANGED <<ret, error, screenshots_dir, orders_csv, rows, i,
                   robot_order, attempts, attempt, screenshot>>
    /\ UNCHANGED pdf_vars

open_robot_order_website ==
    /\ pc = "open_robot_order_website"
    /\ Log(<<Event("goto", 0, 0, "")>>)
    /\ pc' = "download_orders_csv_file"
    /\ UNCHANGED <<ret, error, screenshots_dir, receipts_dir, orders_csv, rows, i,
                   robot_order, attempts, attempt, screenshot>>
    /\ UNCHANGED pdf_vars

\* The service decides the content of the file; the download overwrites it.
download_orders_csv_file ==
    /\ pc = "download_orders_csv_file"
    /\ \E table \in Tables : orders_csv' = table
    /\ pc' = "fill_form_with_csv_data"
    /\ UNCHANGED <<ret, error, screenshots_dir, receipts_dir, rows, i,
                   robot_order, attempts, attempt, screenshot, events>>
    /\ UNCHANGED pdf_vars

\* fill_form_with_csv_data, up to the loop: read the table.
fill_form_with_csv_data ==
    /\ pc = "fill_form_with_csv_data"
    /\ rows' = orders_csv
    /\ i' = 0
    /\ pc' = "for_row"
    /\ UNCHANGED <<ret, error, screenshots_dir, receipts_dir, orders_csv,
                   robot_order, attempts, attempt, screenshot, events>>
    /\ UNCHANGED pdf_vars

\* Mutant of ForRow: the rows are taken from the end of the table.
ForRow_Reversed ==
    /\ pc = "for_row"
    /\ IF i < Len(rows)
         THEN /\ i' = i + 1
              /\ robot_order' = RobotOrder(rows[Len(rows) - i])
              /\ Log(<<Event("order", i + 1, 0, RobotOrder(rows[Len(rows) - i]).order_number)>>)
              /\ attempts' = DefaultAttempts
              /\ ret' = "fill_form_with_csv_data"
              /\ pc' = "fill_and_submit_order_form"
         ELSE /\ pc' = "done"
              /\ UNCHANGED <<i, robot_order, attempts, ret, events>>
    /\ UNCHANGED <<error, screenshots_dir, receipts_dir, orders_csv, rows,
                   attempt, screenshot>>
    /\ UNCHANGED pdf_vars

\* for row in rows: build the RobotOrder and call fill_and_submit_order_form
\* with the default attempts; the loop ends after the last row.
ForRow ==
    /\ pc = "for_row"
    /\ IF i < Len(rows)
         THEN /\ i' = i + 1
              /\ robot_order' = RobotOrder(rows[i + 1])
              /\ Log(<<Event("order", i + 1, 0, RobotOrder(rows[i + 1]).order_number)>>)
              /\ attempts' = DefaultAttempts
              /\ ret' = "fill_form_with_csv_data"
              /\ pc' = "fill_and_submit_order_form"
         ELSE /\ pc' = "done"
              /\ UNCHANGED <<i, robot_order, attempts, ret, events>>
    /\ UNCHANGED <<error, screenshots_dir, receipts_dir, orders_csv, rows,
                   attempt, screenshot>>
    /\ UNCHANGED pdf_vars

----------------------------------------------------------------------------
(* fill_and_submit_order_form *)

\* Mutant of DismissIntro: the modal is dismissed for the first order only.
DismissIntro_OncePerProcess ==
    /\ pc = "fill_and_submit_order_form"
    /\ \/ /\ IF i <= 1
               THEN Log(<<Event("click_ok", i, 0, OK_BUTTON)>>)
               ELSE UNCHANGED events
          /\ attempt' = 1
          /\ pc' = "for_attempt"
          /\ UNCHANGED error
       \/ /\ i <= 1
          /\ WaitTimesOut(OK_BUTTON, 0)
          /\ UNCHANGED attempt
    /\ UNCHANGED <<ret, screenshots_dir, receipts_dir, orders_csv, rows, i,
                   robot_order, attempts, screenshot>>
    /\ UNCHANGED pdf_vars

\* Wait for the intro modal's OK button and click it, then enter the loop
\* with attempt = 1.
DismissIntro ==
    /\ pc = "fill_and_submit_order_form"
    /\ \/ /\ Log(<<Event("click_ok", i, 0, OK_BUTTON)>>)
          /\ attempt' = 1
          /\ pc' = "for_attempt"
          /\ UNCHANGED error
       \/ /\ WaitTimesOut(OK_BUTTON, 0)
          /\ UNCHANGED attempt
    /\ UNCHANGED <<ret, screenshots_dir, receipts_dir, orders_csv, rows, i,
                   robot_order, attempts, screenshot>>
    /\ UNCHANGED pdf_vars

\* Mutant of LoopContinues: the body runs once before the budget is looked at.
LoopContinues_AtLeastOnce == attempt <= attempts \/ attempt = 1

\* Mutant of LoopContinues: range(1, attempts), one attempt short.
LoopContinues_OneShort == attempt < attempts

\* for attempt in range(1, attempts + 1): the body runs while attempt <= attempts.
LoopContinues == attempt <= attempts

\* Mutant of FillOrderForm: a timeout of the wait for #head counts as a failed
\* attempt: the page is reloaded and the next attempt starts.
FillOrderForm_RetriesTimeout ==
    /\ pc = "for_attempt"
    /\ LoopContinues
    /\ \/ /\ Log(<<Event("fill", i, attempt, robot_order.order_number),
                   Event("click_order", i, attempt, robot_order.order_number)>>)
          /\ pc' = "check_alert"
          /\ UNCHANGED <<error, attempt>>
       \/ /\ Log(<<Event("wait_timeout", i, attempt, HEAD_FIELD),
                   Event("reload", i, attempt, robot_order.order_number)>>)
          /\ attempt' = attempt + 1
          /\ pc' = "for_attempt"
          /\ UNCHANGED error
    /\ UNCHANGED <<ret, screenshots_dir, receipts_dir, orders_csv, rows, i,
                   robot_order, attempts, screenshot>>
    /\ UNCHANGED pdf_vars

\* One pass of the loop body up to the settle delay: wait for #head, fill the
\* four fields, click #order.
FillOrderForm ==
    /\ pc = "for_attempt"
    /\ LoopContinues
    /\ \/ /\ Log(<<Event("fill", i, attempt, robot_order.order_number),
                   Event("click_order", i, attempt, robot_order.order_number)>>)
          /\ pc' = "check_alert"
          /\ UNCHANGED error
       \/ WaitTimesOut(HEAD_FIELD, attempt)
    /\ UNCHANGED <<ret, screenshots_dir, receipts_dir, orders_csv, rows, i,
                   robot_order, attempts, attempt, screenshot>>
    /\ UNCHANGED pdf_vars

\* The alert is not visible: return to the caller.
ReturnFromSubmit ==
    /\ Log(<<Event("alert_hidden", i, attempt, robot_order.order_number)>>)
    /\ pc' = IF ret = "fill_form_with_csv_data" THEN "save_robot_screenshot" ELSE "returned"
    /\ UNCHANGED attempt

\* Mutant of RetrySubmit: the page is reloaded only when another attempt is
\* left in the budget.
RetrySubmit_NoReloadAfterLast ==
    /\ Log(<<Event("alert_visible", i, attempt, robot_order.order_number),
             Event("warning", i, attempt, robot_order.order_number)>>
           \o (IF attempt < attempts
                 THEN <<Event("reload", i, attempt, robot_order.order_number)>>
                 ELSE <<>>))
    /\ attempt' = attempt + 1
    /\ pc' = "for_attempt"

\* Mutant of RetrySubmit: the retry goes on without reloading the page.
RetrySubmit_NoReload ==
    /\ Log(<<Event("alert_visible", i, attempt, robot_order.order_number),
             Event("warning", i, attempt, robot_order.order_number)>>)
    /\ attempt' = attempt + 1
    /\ pc' = "for_attempt"

\* The alert is visible: log the warning, reload the page, next attempt.
RetrySubmit ==
    /\ Log(<<Event("alert_visible", i, attempt, robot_order.order_number),
             Event("warning", i, attempt, robot_order.order_number),
             Event("reload", i, attempt, robot_order.order_number)>>)
    /\ attempt' = attempt + 1
    /\ pc' = "for_attempt"

CheckAlert ==
    /\ pc = "check_alert"
    /\ \E visible \in BOOLEAN : IF visible THEN RetrySubmit ELSE ReturnFromSubmit
    /\ UNCHANGED <<ret, error, screenshots_dir, receipts_dir, orders_csv, rows, i,
                   robot_order, attempts, screenshot>>
    /\ UNCHANGED pdf_vars

\* Mutant of RaiseExhausted: the function falls off the end of the loop and
\* returns to its caller.
RaiseExhausted_Returns ==
    /\ pc = "for_attempt"
    /\ ~LoopContinues
    /\ pc' = IF ret = "fill_form_with_csv_data" THEN "save_robot_screenshot" ELSE "returned"
    /\ UNCHANGED <<ret, error, screenshots_dir, receipts_dir, orders_csv, rows, i,
                   robot_order, attempts, attempt, screenshot, events>>
    /\ UNCHANGED pdf_vars

\* The loop ran out of attempts.
RaiseExhausted ==
    /\ pc = "for_attempt"
    /\ ~LoopContinues
    /\ Raise(ExhaustedError(robot_order, attempts))
    /\ UNCHANGED <<ret, screenshots_dir, receipts_dir, orders_csv, rows, i,
                   robot_order, attempts, attempt, screenshot, events>>
    /\ UNCHANGED pdf_vars

----------------------------------------------------------------------------
(* Screenshot, receipt, reset *)

\* The directory is created before the wait, so it exists even on a timeout.
save_robot_screenshot ==
    /\ pc = "save_robot_screenshot"
    /\ \/ /\ screenshots_dir' =
                WriteFile(Mkdir(screenshots_dir), ScreenshotPath(robot_order), i)
          /\ Log(<<Event("screenshot", i, 0, ScreenshotPath(robot_order))>>)
          /\ screenshot' = ScreenshotPath(robot_order)
          /\ pc' = "generate_robot_order_receipt"
          /\ UNCHANGED error
       \/ /\ screenshots_dir' = Mkdir(screenshots_dir)
          /\ WaitTimesOut(PREVIEW_IMAGE, 0)
          /\ UNCHANGED screenshot
    /\ UNCHANGED <<ret, receipts_dir, orders_csv, rows, i,
                   robot_order, attempts, attempt>>
    /\ UNCHANGED pdf_vars

\* write_receipt_to_pdf: the file is named after the order id read from the page.
write_receipt_to_pdf(order_id, screenshot_path) ==
    /\ receipts_dir' = WriteFile(Mkdir(receipts_dir), ReceiptPath(order_id), i)
    /\ Log(<<Event("order_id", i, 0, order_id),
             Event("receipt", i, 0, ReceiptPath(order_id))>>)

\* generate_robot_order_receipt: the receipt region is queried without a
\* wait; when it is absent query_selector gives None and the next call fails.
generate_robot_order_receipt ==
    /\ pc = "generate_robot_order_receipt"
    /\ \/ /\ \E order_id \in PageOrderIds : write_receipt_to_pdf(order_id, screenshot)
          /\ pc' = "order_another_robot"
          /\ UNCHANGED error
       \/ /\ Raise(AttributeError(RECEIPT_REGION))
          /\ UNCHANGED <<receipts_dir, events>>
    /\ UNCHANGED <<ret, screenshots_dir, orders_csv, rows, i,
                   robot_order, attempts, attempt, screenshot>>
    /\ UNCHANGED pdf_vars

\* Mutant of order_another_robot: no reset after the last row of the table.
order_another_robot_NotAfterLast ==
    /\ pc = "order_another_robot"
    /\ \/ /\ IF i < Len(rows)
               THEN Log(<<Event("order_another", i, 0, ORDER_ANOTHER_BUTTON)>>)
               ELSE UNCHANGED events
          /\ pc' = "for_row"
          /\ UNCHANGED error
       \/ /\ i < Len(rows)
          /\ WaitTimesOut(ORDER_ANOTHER_BUTTON, 0)
    /\ UNCHANGED <<ret, screenshots_dir, receipts_dir, orders_csv, rows, i,
                   robot_order, attempts, attempt, screenshot>>
    /\ UNCHANGED pdf_vars

\* Mutant of order_another_robot: the button is waited for but never clicked.
order_another_robot_NoClick ==
    /\ pc = "order_another_robot"
    /\ \/ /\ pc' = "for_row"
          /\ UNCHANGED <<error, events>>
       \/ WaitTimesOut(ORDER_ANOTHER_BUTTON, 0)
    /\ UNCHANGED <<ret, screenshots_dir, receipts_dir, orders_csv, rows, i,
                   robot_order, attempts, attempt, screenshot>>
    /\ UNCHANGED pdf_vars

order_another_robot ==
    /\ pc = "order_another_robot"
    /\ \/ /\ Log(<<Event("order_another", i, 0, ORDER_ANOTHER_BUTTON)>>)
          /\ pc' = "for_row"
          /\ UNCHANGED error
       \/ WaitTimesOut(ORDER_ANOTHER_BUTTON, 0)
    /\ UNCHANGED <<ret, screenshots_dir, receipts_dir, orders_csv, rows, i,
                   robot_order, attempts, attempt, screenshot>>
    /\ UNCHANGED pdf_vars

----------------------------------------------------------------------------
(* write_receipt_to_pdf: the cleaning of the parts markup *)

\* The inputs: markup built from at most MaxPieces of these pieces.
Pieces ==
    { <<"<", "d", "i", "v">>, <<"<", "/", "d", "i", "v">>, <<">">>, <<" ">>,
      <<"A">>, <<"<", "p">>, <<"i", "d", "e", "r">> }

RECURSIVE Concat(_)
Concat(ps) == IF ps = <<>> THEN <<>> ELSE Head(ps) \o Concat(Tail(ps))

Markups == {Concat(ps) : ps \in UNION {[1..n -> Pieces] : n \in 0..MaxPieces}}

\* The character at position p, "" past the end.
At(s, p) == IF p \in DOMAIN s THEN s[p] ELSE ""

\* The positions of the next ">" at or after position p.
ClosingFrom(s, p) == {k \in p..Len(s) : s[k] = ">"}

Min(S) == CHOOSE x \in S : \A y \in S : x <= y

\* The pattern </?div[^>]*> tried at position p: the position of the last
\* character of the match, 0 when there is no match.  After "<" and an
\* optional "/" come the letters d, i, v; [^>]* then runs up to the next ">",
\* which must exist.
MatchEnd(s, p) ==
    LET q == IF At(s, p + 1) = "/" THEN p + 2 ELSE p + 1
    IN  IF /\ At(s, p) = "<"
           /\ At(s, q) = "d"
           /\ At(s, q + 1) = "i"
           /\ At(s, q + 2) = "v"
           /\ ClosingFrom(s, q + 3) # {}
          THEN Min(ClosingFrom(s, q + 3))
          ELSE 0

\* re.sub(pattern, "", s) from position p on: matches are taken left to
\* right, without overlap, and dropped.
RECURSIVE ReSub(_, _)
ReSub(s, p) ==
    IF p > Len(s) THEN <<>>
    ELSE IF MatchEnd(s, p) > 0 THEN ReSub(s, MatchEnd(s, p) + 1)
    ELSE <<s[p]>> \o ReSub(s, p + 1)

Whitespace == {" "}

\* str.strip(): leading and trailing whitespace removed.
RECURSIVE LStrip(_)
LStrip(s) == IF s # <<>> /\ Head(s) \in Whitespace THEN LStrip(Tail(s)) ELSE s

RECURSIVE RStrip(_)
RStrip(s) ==
    IF s # <<>> /\ s[Len(s)] \in Whitespace THEN RStrip(SubSeq(s, 1, Len(s) - 1)) ELSE s

Strip(s) == LStrip(RStrip(s))

\* clean_order_html = re.sub(r"</?div[^>]*>", "", order_html).strip()
CleanOrderHtml ==
    /\ pdf_pc = "clean_order_html"
    /\ clean_order_html' = Strip(ReSub(order_html, 1))
    /\ pdf_pc' = "cleaned"
    /\ UNCHANGED <<order_html, img, img_width, img_height, scale>>
    /\ UNCHANGED task_vars

\* The task is not running while one receipt is rendered.
TaskIdle ==
    /\ pc = "write_receipt_to_pdf"
    /\ ret = "caller"
    /\ error = NoError
    /\ screenshots_dir = AbsentDir
    /\ receipts_dir = AbsentDir
    /\ orders_csv = <<>>
    /\ rows = <<>>
    /\ i = 0
    /\ robot_order = NoOrder
    /\ attempts = DefaultAttempts
    /\ attempt = 0
    /\ screenshot = ""
    /\ events = <<>>

\* write_receipt_to_pdf at line 186, for any parts markup.
InitClean ==
    /\ TaskIdle
    /\ pdf_pc = "clean_order_html"
    /\ order_html \in Markups
    /\ clean_order_html = <<>>
    /\ img = <<1, 1>>
    /\ img_width = Rat(1, 1)
    /\ img_height = Rat(1, 1)
    /\ scale = Rat(1, 1)

----------------------------------------------------------------------------
(* write_receipt_to_pdf: the scaling of the screenshot *)

\* Fractions stand for the floating-point numbers of the code; the rounding
\* of floating-point arithmetic is not modelled.
RatMul(a, b) == Rat(a.n * b.n, a.d * b.d)

RatDiv(a, b) == Rat(a.n * b.d, a.d * b.n)

\* a/b < c/d for a, c >= 0 and b, d > 0, compared by integer parts and then
\* by the reciprocals of the fractional parts, so that no product is formed.
RECURSIVE Less(_, _, _, _)
Less(a, b, c, d) ==
    IF a \div b # c \div d THEN a \div b < c \div d
    ELSE IF c % d = 0 THEN FALSE
    ELSE IF a % b = 0 THEN TRUE
    ELSE Less(d, c % d, b, a % b)

RatLess(x, y) == Less(x.n, x.d, y.n, y.d)

RatEq(x, y) == ~RatLess(x, y) /\ ~RatLess(y, x)

\* min(x, y): the first of the smallest.
RatMin(x, y) == IF RatLess(y, x) THEN y ELSE x

\* reportlab's A4 = (210 mm, 297 mm) in points, 1 mm = 72/25.4 = 360/127 points.
A4 == <<Rat(210 * 360, 127), Rat(297 * 360, 127)>>

page_width == A4[1]

page_height == A4[2]

\* max_img_width = page_width * 0.8
max_img_width == RatMul(page_width, Rat(8, 10))

\* max_img_height = page_height * 0.4
max_img_height == RatMul(page_height, Rat(4, 10))

\* Mutant of Scale: the cap at 1.0 is left out, small images are blown up.
Scale_NoCap(w, h) == RatMin(RatDiv(max_img_width, w), RatDiv(max_img_height, h))

\* scale = min(max_img_width / img_width, max_img_height / img_height, 1.0)
Scale(w, h) ==
    RatMin(RatMin(RatDiv(max_img_width, w), RatDiv(max_img_height, h)), Rat(1, 1))

\* Lines 203-210: read the size of the image, compute the scale and apply it
\* to both dimensions.
ScaleImage ==
    /\ pdf_pc = "scale"
    /\ scale' = Scale(Rat(img[1], 1), Rat(img[2], 1))
    /\ img_width' = RatMul(Rat(img[1], 1), scale')
    /\ img_height' = RatMul(Rat(img[2], 1), scale')
    /\ pdf_pc' = "scaled"
    /\ UNCHANGED <<order_html, clean_order_html, img>>
    /\ UNCHANGED task_vars

\* The sizes of the screenshots tried: multiples of ImgStep pixels.
ImgSizes == {k * ImgStep : k \in 1..MaxImgSteps}

\* write_receipt_to_pdf at line 202, for any size of the screenshot.
InitScale ==
    /\ TaskIdle
    /\ pdf_pc = "scale"
    /\ order_html = <<>>
    /\ clean_order_html = <<>>
    /\ img \in ImgSizes \X ImgSizes
    /\ img_width = Rat(img[1], 1)
    /\ img_height = Rat(img[2], 1)
    /\ scale = Rat(1, 1)

----------------------------------------------------------------------------
(* Specifications *)

Next ==
    \/ configure_browser
    \/ clean_screenshots_dir
    \/ clean_receipts_dir
    \/ open_robot_order_website
    \/ download_orders_csv_file
    \/ fill_form_with_csv_data
    \/ ForRow
    \/ DismissIntro
    \/ FillOrderForm
    \/ CheckAlert
    \/ RaiseExhausted
    \/ save_robot_screenshot
    \/ generate_robot_order_receipt
    \/ order_another_robot

Spec == Init /\ [][Next]_vars

NextCall ==
    \/ DismissIntro
    \/ FillOrderForm
    \/ CheckAlert
    \/ RaiseExhausted

SpecCall == InitCall /\ [][NextCall]_vars

NextClean == CleanOrderHtml

SpecClean == InitClean /\ [][NextClean]_vars

NextScale == ScaleImage

SpecScale == InitScale /\ [][NextScale]_vars

----------------------------------------------------------------------------
(* Reading the history *)

\* The positions of the history holding a call op made for row r.
Calls(op, r) == {k \in DOMAIN events : events[k].op = op /\ events[k].row = r}

Count(op, r) == Cardinality(Calls(op, r))

\* The positions holding a call op, whatever the row.
AllCalls(op) == {k \in DOMAIN events : events[k].op = op}

CountAll(op) == Cardinality(AllCalls(op))

\* The check after attempt k of row r found the alert visible / not visible.
VisibleAt(r, k) == \E n \in Calls("alert_visible", r) : events[n].att = k

HiddenAt(r, k) == \E n \in Calls("alert_hidden", r) : events[n].att = k

LastOp == IF events = <<>> THEN "" ELSE events[Len(events)].op

Failed == error # NoError

----------------------------------------------------------------------------
(* C1, C2: the retry loop of fill_and_submit_order_form *)

\* C1: in a call with attempt budget N >= 1, if the alert was visible after
\* attempts 1..k-1 and is not visible after attempt k, the call has returned
\* without error, k <= N, it made exactly k fill cycles (k fills, k clicks on
\* #order) and exactly k-1 reloads, and the successful check is the last
\* thing it did: nothing is filled or reloaded after it.
C1_SuccessOnAttemptK ==
    \A k \in 1..(MaxAttempts + 1) :
        (attempts >= 1 /\ HiddenAt(0, k) /\ \A j \in 1..(k - 1) : VisibleAt(0, j))
            => /\ pc = "returned"
               /\ ~Failed
               /\ k <= attempts
               /\ Count("fill", 0) = k
               /\ Count("click_order", 0) = k
               /\ Count("reload", 0) = k - 1
               /\ LastOp = "alert_hidden"
               /\ ~ENABLED NextCall

\* A call with budget 3 that succeeded on its third attempt, after two reloads.
C1_Witness ==
    /\ attempts = 3
    /\ pc = "returned"
    /\ HiddenAt(0, 3)
    /\ Count("reload", 0) = 2

\* C2: in a call with attempt budget N >= 0 no more than N fill cycles are
\* ever made; once the alert was visible after each of the N >= 1 attempts the
\* call has made exactly N fill cycles and can only fail; and the
\* attempts-exhausted error is raised only then, with a message carrying the
\* order number and N.
C2_ExhaustedAfterN ==
    attempts >= 0 =>
        /\ Count("fill", 0) <= attempts
        /\ (attempts >= 1 /\ \A j \in 1..attempts : VisibleAt(0, j))
              => /\ Count("fill", 0) = attempts
                 /\ Count("click_order", 0) = attempts
                 /\ ~HiddenAt(0, attempts)
                 /\ pc \in {"for_attempt", "raised"}
                 /\ pc = "raised" => error.type = "RuntimeError"
        /\ error.type = "RuntimeError"
              => /\ \A j \in 1..attempts : VisibleAt(0, j)
                 /\ Count("fill", 0) = attempts
                 /\ error.message = "Failed to submit order for " \o robot_order.order_number
                                        \o " after " \o ToString(attempts) \o " attempts"

\* A call with budget 3 that failed after three rejected attempts.
C2_Witness ==
    /\ attempts = 3
    /\ error.type = "RuntimeError"
    /\ Count("alert_visible", 0) = 3

----------------------------------------------------------------------------
(* C3: a failed row stops the run *)

\* Every row in 1..n has had its four steps.
Completed(r) ==
    /\ Count("alert_hidden", r) = 1
    /\ Count("screenshot", r) = 1
    /\ Count("receipt", r) = 1
    /\ Count("order_another", r) = 1

\* C3 as stated: when the processing of row K has failed, no receipt was
\* generated for row K and nothing was attempted for a later row.
C3_NoReceiptForFailedRow ==
    Failed => /\ Count("receipt", i) = 0
              /\ \A k \in DOMAIN events : events[k].row <= i

\* C3 amended: when the processing of row K has failed, the run has stopped
\* and nothing was ever attempted for a row after K; no receipt was generated
\* for row K, except when the failure is the timeout of the reset step
\* (order_another_robot), which comes after row K's receipt was written.  A
\* run ends either with every row processed or at its first failure.
C3_FailedRowStopsRun ==
    /\ Failed =>
          /\ pc = "raised"
          /\ ~ENABLED Next
          /\ i \in 1..Len(rows)
          /\ \A k \in DOMAIN events : events[k].row <= i
          /\ \A r \in 1..(i - 1) : Completed(r)
          /\ Count("receipt", i) <= 1
          /\ Count("receipt", i) = 1 <=> error = TimeoutError(ORDER_ANOTHER_BUTTON)
    /\ ~ENABLED Next =>
          /\ pc \in {"done", "raised"}
          /\ pc = "raised" <=> Failed
          /\ pc = "done" => \A r \in 1..Len(rows) : Completed(r)

\* The reset of row 1 of 2 timed out: row 1 has its receipt, row 2 is never
\* started.
C3_Witness ==
    /\ Len(rows) = 2
    /\ i = 1
    /\ error = TimeoutError(ORDER_ANOTHER_BUTTON)
    /\ Count("receipt", 1) = 1

----------------------------------------------------------------------------
(* C4, C5: the files of a run *)

\* The files of a directory written by this run.
RunFiles(dir) == {f \in dir.files : f.row > 0}

DistinctOrderNumbers ==
    \A a, b \in DOMAIN rows : a # b => rows[a]["Order number"] # rows[b]["Order number"]

\* C4: after a run that completes over n rows with distinct order numbers
\* there are exactly n screenshot files and n receipt files, and row r's
\* receipt is receipt_<order_number>.pdf, with the order number of row r's
\* screenshot robot_<order_number>.png.
C4_ReceiptNamedByOrderNumber ==
    (pc = "done" /\ DistinctOrderNumbers) =>
        /\ Cardinality(screenshots_dir.files) = Len(rows)
        /\ Cardinality(receipts_dir.files) = Len(rows)
        /\ \A r \in DOMAIN rows :
              /\ File(SCREENSHOTS_DIR \o "/robot_" \o rows[r]["Order number"] \o ".png", r)
                    \in screenshots_dir.files
              /\ File(RECEIPTS_DIR \o "/receipt_" \o rows[r]["Order number"] \o ".pdf", r)
                    \in receipts_dir.files

\* The order ids the page has shown to the receipt steps so far.
ShownIds == {events[k].arg : k \in AllCalls("order_id")}

\* The last row whose receipt step was shown the order id.
LastRowShown(id) ==
    CHOOSE r \in 1..i :
        /\ \E k \in Calls("order_id", r) : events[k].arg = id
        /\ \A q \in (r + 1)..i : \A k \in Calls("order_id", q) : events[k].arg # id

NoReceiptWrittenTwice ==
    \A a, b \in AllCalls("receipt") : a # b => events[a].arg # events[b].arg

----------------------------------------------------------------------------
(* C6: one order at a time *)

SubmitOps == {"click_ok", "fill", "click_order", "alert_visible", "alert_hidden",
              "warning", "reload"}

\* The step of an order a call belongs to: 1 submit, 2 screenshot, 3 receipt,
\* 4 reset (0: the call that opens the row; 5: the timeout that ends the run).
Step(op) ==
    IF op \in SubmitOps THEN 1
    ELSE IF op = "screenshot" THEN 2
    ELSE IF op \in {"order_id", "receipt"} THEN 3
    ELSE IF op = "order_another" THEN 4
    ELSE IF op = "wait_timeout" THEN 5
    ELSE 0

\* The row of the latest call.
LastRow == IF events = <<>> THEN 0 ELSE events[Len(events)].row

\* C6: the calls of the history are grouped by row in increasing order (each
\* call is compared with the one before it); within a row the steps come in
\* the order submit, screenshot, receipt, reset; and
\* every row before the row of the latest call has completed its four steps,
\* so its reset precedes the first call for any later row.
C6_StrictlySequential ==
    /\ \A b \in 2..Len(events) :
          /\ events[b - 1].row <= events[b].row
          /\ events[b - 1].row = events[b].row
                => Step(events[b - 1].op) <= Step(events[b].op)
    /\ \A r \in 1..(LastRow - 1) : Completed(r)

\* Both rows of a two-row table went through their four steps.
C6_Witness ==
    /\ pc = "done"
    /\ Len(rows) = 2
    /\ Completed(1)
    /\ Completed(2)

----------------------------------------------------------------------------
(* C7: the rows of the table *)

\* The "order" calls of the history: one per RobotOrder built by the loop.
Orders == SelectSeq(events, LAMBDA e : e.op = "order")

\* The first fill of each row, in the order they were made.
FirstFills == SelectSeq(events, LAMBDA e : e.op = "fill" /\ e.att = 1)

\* C7: the loop has built exactly one RobotOrder for each of the first i rows
\* of the table, in file order, the k-th from the k-th row, each holding the
\* five columns of its row; the forms are filled in that same order; the table
\* is the downloaded file; and a run that completes has taken every row.
C7_RowsInFileOrder ==
    /\ i <= Len(rows)
    /\ Len(Orders) = i
    /\ \A k \in 1..i :
          /\ Orders[k].row = k
          /\ Orders[k].arg = rows[k]["Order number"]
    /\ i >= 1 =>
          robot_order = [order_number |-> rows[i]["Order number"],
                         head         |-> rows[i]["Head"],
                         body         |-> rows[i]["Body"],
                         legs         |-> rows[i]["Legs"],
                         address      |-> rows[i]["Address"]]
    /\ \A k \in DOMAIN FirstFills :
          /\ FirstFills[k].row = k
          /\ FirstFills[k].arg = rows[k]["Order number"]
    /\ pc \in {"for_row", "done", "raised"} \/ i >= 1 => rows = orders_csv
    /\ pc = "done" => /\ i = Len(rows)
                      /\ Len(FirstFills) = Len(rows)

\* A completed run over a table whose two rows differ.
C7_Witness ==
    /\ pc = "done"
    /\ Len(rows) = 2
    /\ rows[1] # rows[2]
    /\ Len(FirstFills) = 2

----------------------------------------------------------------------------
(* C8: the intro modal *)

\* C8 as stated: over a run that processes n >= 2 orders the intro modal's OK
\* is clicked exactly once.
C8_IntroDismissedOncePerRun ==
    (pc = "done" /\ Len(rows) >= 2) => CountAll("click_ok") = 1

\* C8 amended: the intro dismissal runs once per call of
\* fill_and_submit_order_form, that is once per order and not once per
\* attempt: each order the loop has started has its OK clicked at most once,
\* exactly once before its first fill whatever the number of retries, and a
\* run that completes over n orders has clicked it exactly n times.
C8_IntroDismissedOncePerOrder ==
    /\ \A r \in 1..i :
          /\ Count("click_ok", r) <= 1
          /\ Count("fill", r) > 0 =>
                /\ Count("click_ok", r) = 1
                /\ \A a \in Calls("click_ok", r) : \A b \in Calls("fill", r) : a < b
          /\ (r < i \/ pc # "fill_and_submit_order_form") =>
                Count("click_ok", r) = 1
                    \/ (r = i /\ error = TimeoutError(OK_BUTTON))
    /\ CountAll("click_ok") <= i
    /\ pc = "done" => CountAll("click_ok") = Len(rows)

\* A completed run over two orders, one of them retried: two clicks on OK.
C8_Witness ==
    /\ pc = "done"
    /\ Len(rows) = 2
    /\ CountAll("click_ok") = 2
    /\ CountAll("reload") >= 1

----------------------------------------------------------------------------
(* C9: a selector wait that times out *)

WaitedSelectors == {OK_BUTTON, HEAD_FIELD, PREVIEW_IMAGE, ORDER_ANOTHER_BUTTON}

\* C9: when the wait for a required element has timed out, the timeout is the
\* last thing the run did: no reload and no further fill follow it, the run
\* has stopped with the timeout of that selector and not with the
\* attempts-exhausted error; for #head this holds with attempts still left in
\* the budget, the row having had one fill and one reload per earlier attempt.
C9_TimeoutNotRetried ==
    /\ \A k \in AllCalls("wait_timeout") :
          /\ k = Len(events)
          /\ events[k].arg \in WaitedSelectors
          /\ events[k].row = i
          /\ pc = "raised"
          /\ ~ENABLED Next
          /\ error = TimeoutError(events[k].arg)
          /\ error.type # "RuntimeError"
          /\ events[k].arg = HEAD_FIELD =>
                /\ events[k].att = attempt
                /\ attempt <= attempts
                /\ Count("fill", i) = attempt - 1
                /\ Count("reload", i) = attempt - 1
    /\ error.type = "TimeoutError" => LastOp = "wait_timeout"
    /\ CountAll("reload") = CountAll("alert_visible")

\* The wait for #head timed out on the second of three attempts.
C9_Witness ==
    /\ error = TimeoutError(HEAD_FIELD)
    /\ attempt = 2
    /\ attempts = 3
    /\ Count("reload", i) = 1

----------------------------------------------------------------------------
(* C10: the workspace is cleaned first *)

BeforeClean == {"configure_browser", "clean_screenshots_dir", "clean_receipts_dir"}

\* Files left by an earlier run.
StaleFiles == {f \in screenshots_dir.files \cup receipts_dir.files : f.row = 0}

\* Until both directories are cleaned nothing is done for any order (no page
\* is opened, no row is taken); from then on, and so whenever an order is
\* submitted, no file of an earlier run exists; each clean step leaves its
\* directory absent without an error.
CleanedBeforeOrders ==
    /\ pc \in BeforeClean =>
          /\ i = 0
          /\ rows = <<>>
          /\ \A k \in DOMAIN events : events[k].op = "rmtree"
    /\ pc \notin BeforeClean => StaleFiles = {}
    /\ pc = "clean_receipts_dir" => (screenshots_dir = AbsentDir /\ ~Failed)
    /\ pc = "open_robot_order_website" =>
          (screenshots_dir = AbsentDir /\ receipts_dir = AbsentDir /\ ~Failed)
    /\ (Count("click_order", 1) > 0 /\ Count("screenshot", 1) = 0)
          => (screenshots_dir.files = {} /\ receipts_dir.files = {})

\* A clean step that finds its directory absent changes nothing, calls nothing
\* and raises nothing; one that finds it present calls rmtree once.
CleanOfAbsentDirIsNoOp ==
    /\ pc = "clean_screenshots_dir" =>
          /\ ~Failed'
          /\ pc' = "clean_receipts_dir"
          /\ IF screenshots_dir.exists
               THEN events' = Append(events, Event("rmtree", 0, 0, SCREENSHOTS_DIR))
               ELSE screenshots_dir' = screenshots_dir /\ events' = events
    /\ pc = "clean_receipts_dir" =>
          /\ ~Failed'
          /\ pc' = "open_robot_order_website"
          /\ IF receipts_dir.exists
               THEN events' = Append(events, Event("rmtree", 0, 0, RECEIPTS_DIR))
               ELSE receipts_dir' = receipts_dir /\ events' = events

\* C10: the two clean steps run before any order processing, so that no file
\* of an earlier run exists when the first order is submitted, and a clean
\* step whose directory is already absent is a no-op that raises no error.
C10_CleanBeforeOrders == []CleanedBeforeOrders /\ [][CleanOfAbsentDirIsNoOp]_vars

\* Both directories existed and were removed, and the first order is being
\* submitted.
C10_Witness ==
    /\ CountAll("rmtree") = 2
    /\ i = 1
    /\ LastOp = "click_order"

----------------------------------------------------------------------------
(* C13: what follows a failed attempt *)

\* The warnings logged so far, in the order they were logged.
Warnings == SelectSeq(events, LAMBDA e : e.op = "warning")

\* C13: within one call every check that finds the alert visible, the one
\* after the last attempt N included, is followed at once by a warning for the
\* same order and attempt and then by one reload, and the reload by nothing
\* but the fill of the next attempt; there is one reload per failed attempt,
\* the warnings carry the attempt numbers 1, 2, ... in increasing order, and
\* a call that ended exhausted has made N reloads and logged 1..N.
C13_FailedAttemptReloads ==
    /\ \A k \in AllCalls("alert_visible") :
          /\ k + 2 <= Len(events)
          /\ events[k + 1] = [events[k] EXCEPT !.op = "warning"]
          /\ events[k + 2] = [events[k] EXCEPT !.op = "reload"]
          /\ events[k].arg = robot_order.order_number
          /\ k + 3 <= Len(events) =>
                /\ events[k + 3].op \in {"fill", "wait_timeout"}
                /\ events[k + 3].att = events[k].att + 1
          /\ k + 2 = Len(events) => pc \in {"for_attempt", "raised"}
    /\ CountAll("reload") = CountAll("alert_visible")
    /\ CountAll("warning") = CountAll("alert_visible")
    /\ \A n \in DOMAIN Warnings : Warnings[n].att = n
    /\ error.type = "RuntimeError" =>
          /\ attempts >= 1 => LastOp = "reload"
          /\ attempts >= 0 => /\ CountAll("reload") = attempts
                              /\ Len(Warnings) = attempts

\* A call with budget 3 that ended exhausted after three reloads.
C13_Witness ==
    /\ attempts = 3
    /\ error.type = "RuntimeError"
    /\ CountAll("reload") = 3
    /\ LastOp = "reload"

----------------------------------------------------------------------------
(* C14: submission, then screenshot, then receipt *)

\* C14: a screenshot is written for a row only after the check of that row
\* found the alert not visible, and a receipt only after that row's
\* screenshot; so at every point receipts <= screenshots <= successful
\* submissions, and no two of the three counts differ by more than 1.
C14_ReceiptAfterScreenshotAfterSuccess ==
    /\ \A r \in 1..i :
          /\ \A k \in Calls("screenshot", r) :
                \E h \in Calls("alert_hidden", r) : h < k
          /\ \A k \in Calls("receipt", r) :
                \E h \in Calls("screenshot", r) : h < k
    /\ CountAll("receipt") <= CountAll("screenshot")
    /\ CountAll("screenshot") <= CountAll("alert_hidden")
    /\ CountAll("alert_hidden") - CountAll("receipt") <= 1
    /\ Cardinality(RunFiles(receipts_dir)) <= CountAll("receipt")
    /\ Cardinality(RunFiles(screenshots_dir)) <= CountAll("screenshot")

\* The second order is submitted, its screenshot and receipt not yet written.
C14_Witness ==
    /\ CountAll("alert_hidden") = 2
    /\ CountAll("screenshot") = 1
    /\ CountAll("receipt") = 1
    /\ pc = "save_robot_screenshot"

----------------------------------------------------------------------------
(* C15: a budget of no attempts *)

\* C15: a call with budget N <= 0 never fills the form, never clicks #order
\* and never reloads; once the intro is dismissed it can only raise the
\* attempts-exhausted error for its order and N, and it ends with an error.
\* Whatever the budget, a call that has returned has clicked #order.
C15_NoAttemptsMeansExhausted ==
    /\ attempts <= 0 =>
          /\ Count("fill", 0) = 0
          /\ Count("click_order", 0) = 0
          /\ Count("reload", 0) = 0
          /\ pc # "returned"
          /\ Count("click_ok", 0) = 1 =>
                /\ events = <<Event("click_ok", 0, 0, OK_BUTTON)>>
                /\ pc \in {"for_attempt", "raised"}
                /\ pc = "raised" => error = ExhaustedError(robot_order, attempts)
          /\ error.type = "RuntimeError" => Count("click_ok", 0) = 1
          /\ ~ENABLED NextCall => Failed
    /\ pc = "returned" => Count("click_order", 0) >= 1

\* A call with budget 0 that dismissed the intro and raised.
C15_Witness ==
    /\ attempts = 0
    /\ Count("click_ok", 0) = 1
    /\ error.type = "RuntimeError"

----------------------------------------------------------------------------
(* C16: the reset after the last row *)

\* C16: the reset step follows every receipt, the last row's included: the
\* position after a receipt is order_another_robot, a run that completes has
\* clicked the button once per row, and when the reset of the last row times
\* out the run ends with that error although every row has had its screenshot
\* and its receipt.
C16_ResetAfterEveryReceipt ==
    /\ LastOp = "receipt" <=> pc = "order_another_robot"
    /\ \A r \in 1..i :
          Count("order_another", r) =
              IF r < i \/ pc \in {"for_row", "done"} THEN 1 ELSE 0
    /\ pc = "done" => CountAll("order_another") = Len(rows)
    /\ (error = TimeoutError(ORDER_ANOTHER_BUTTON) /\ i = Len(rows)) =>
          /\ pc = "raised"
          /\ ~ENABLED Next
          /\ \A r \in 1..Len(rows) :
                /\ Count("screenshot", r) = 1
                /\ Count("receipt", r) = 1
          /\ \A k \in AllCalls("screenshot") :
                \E f \in screenshots_dir.files : f.path = events[k].arg
          /\ \A k \in AllCalls("receipt") :
                \E f \in receipts_dir.files : f.path = events[k].arg

\* The reset of the last of two rows timed out: both rows have their receipt.
C16_Witness ==
    /\ error = TimeoutError(ORDER_ANOTHER_BUTTON)
    /\ Len(rows) = 2
    /\ i = 2
    /\ CountAll("receipt") = 2

----------------------------------------------------------------------------
(* C11: the cleaning of the parts markup *)

\* A div tag at position p: "<", an optional "/", the name div, the name
\* ending there (">" or whitespace follows), up to the next ">".  The position
\* of its last character, 0 when no div tag starts at p.
DivTagEnd(s, p) ==
    LET q == IF At(s, p + 1) = "/" THEN p + 2 ELSE p + 1
    IN  IF /\ At(s, p) = "<"
           /\ At(s, q) = "d"
           /\ At(s, q + 1) = "i"
           /\ At(s, q + 2) = "v"
           /\ At(s, q + 3) \in {">"} \cup Whitespace
           /\ ClosingFrom(s, q + 3) # {}
          THEN Min(ClosingFrom(s, q + 3))
          ELSE 0

\* The markup from position p on with its div tags, and nothing else, removed.
RECURSIVE WithoutDivTags(_, _)
WithoutDivTags(s, p) ==
    IF p > Len(s) THEN <<>>
    ELSE IF DivTagEnd(s, p) > 0 THEN WithoutDivTags(s, DivTagEnd(s, p) + 1)
    ELSE <<s[p]>> \o WithoutDivTags(s, p + 1)

\* C11: the cleaned markup is the parts markup with every div open tag and
\* every div close tag removed, no other tag removed, and the remainder
\* trimmed.
C11_StripsDivTagsOnly ==
    pdf_pc = "cleaned" => clean_order_html = Strip(WithoutDivTags(order_html, 1))

----------------------------------------------------------------------------
(* C12: the scaling of the screenshot *)

One == Rat(1, 1)

RatLeq(x, y) == ~RatLess(y, x)

\* The image as read fits within both bounds.
FitsUnscaled ==
    /\ RatLeq(Rat(img[1], 1), max_img_width)
    /\ RatLeq(Rat(img[2], 1), max_img_height)

====
